---- MODULE Spec2Model ----
(***************************************************************************)
(* LibHelix: a byte editor that keeps edits as a log of actions laid over  *)
(* a block-cached view of a file, and writes them out on save.             *)
(*                                                                         *)
(* Positions are 0-based as in the C++ source; sequences are 1-based, so   *)
(* the byte at file offset p is data[p + 1].                               *)
(* The file system is POSIX: renaming a file over an open one leaves the   *)
(* open stream on the old contents until the stream is reopened.           *)
(***************************************************************************)
EXTENDS Integers, Sequences, FiniteSets, TLC

(***************************************************************************)
(* Bounds of the model.                                                    *)
(***************************************************************************)
\* size_t is modelled with WordBits bits; a seek offset is signed
WordBits == 12
\* longest backing file
MaxFileLen == 7
\* natural positions passed to edit / insert / deletion are 0..MaxPos
MaxPos == 2
\* amounts passed to insert / deletion are 1..MaxAmount
MaxAmount == 2
\* bytes written by edit are 1..MaxByte
MaxByte == 2
\* natural positions passed to read are 0..MaxReadArg
MaxReadArg == 3
\* the positions at which two states' reads are compared are 0..MaxReadPos
MaxReadPos == 8
\* edit writes at most MaxDataLen bytes
MaxDataLen == 2
\* Flags::block_size of the editors of the model
BlockSize == 2
\* the window of the Partial / Spotty editors of the model is [WinStart, WinEnd)
WinStart == 2
WinEnd == 5
\* operations per run
MaxOps == 3
MaxLogOps == 5
\* chunk sizes passed to File::insertion / File::deletion are 1..MaxChunk
MaxChunk == 3
\* operations per run on the bare file
MaxFileOps == 1
MaxTile == 3

(***************************************************************************)
(* Program constants.                                                      *)
(***************************************************************************)
\* InsertionAction::save: file.insertion(static_cast<size_t>(5), amount, 120)
InsertionSavePosition == 5
InsertionSaveChunk == 120
\* DeletionAction::save: file.deletion(static_cast<size_t>(5), amount, 120)
DeletionSavePosition == 5
DeletionSaveChunk == 120
\* InsertionAction::insertion_value
insertion_value == 0

Word == 2 ^ WordBits
None == -1

Min(a, b) == IF a <= b THEN a ELSE b
Max(a, b) == IF a >= b THEN a ELSE b
\* unsigned arithmetic of size_t
USub(a, b) == (a - b + Word) % Word
UAdd(a, b) == (a + b) % Word
UMul(a, b) == (a * b) % Word
Zeros(n) == [i \in 1..n |-> 0]

(***************************************************************************)
(* Actions (struct Action and its subclasses).  One record shape for all:  *)
(* kind, position, amount, data, children, and what a client-defined       *)
(* subclass may override (canUndo, canRedo, the status of undo and redo).  *)
(***************************************************************************)
EditAction(p, d) ==
    [kind |-> "Edit", position |-> p, amount |-> 0, data |-> d, actions |-> <<>>,
     can_undo |-> TRUE, can_redo |-> TRUE, status |-> "Success"]
InsertionAction(p, n) ==
    [kind |-> "Insertion", position |-> p, amount |-> n, data |-> <<>>, actions |-> <<>>,
     can_undo |-> TRUE, can_redo |-> TRUE, status |-> "Success"]
DeletionAction(p, n) ==
    [kind |-> "Deletion", position |-> p, amount |-> n, data |-> <<>>, actions |-> <<>>,
     can_undo |-> TRUE, can_redo |-> TRUE, status |-> "Success"]
BundledAction(kids) ==
    [kind |-> "Bundled", position |-> 0, amount |-> 0, data |-> <<>>, actions |-> kids,
     can_undo |-> TRUE, can_redo |-> TRUE, status |-> "Success"]
\* a subclass of Action written by a client: it overrides canUndo, canRedo, undo and
\* redo and keeps the base class's reversePosition and getSizeDifference
ClientAction(cu, cr, st) ==
    [kind |-> "Client", position |-> 0, amount |-> 0, data |-> <<>>, actions |-> <<>>,
     can_undo |-> cu, can_redo |-> cr, status |-> st]

\* std::variant<std::byte, Natural>
ByteResult(b) == [is_byte |-> TRUE, value |-> b]
PositionResult(p) == [is_byte |-> FALSE, value |-> p]

Action_reversePosition(a, position) == PositionResult(position)

EditAction_reversePosition(a, read_position) ==
    IF Len(a.data) = 0
    THEN PositionResult(read_position)
    ELSE IF read_position >= a.position /\ read_position < a.position + Len(a.data)
         THEN ByteResult(a.data[(read_position - a.position) + 1])
         ELSE PositionResult(read_position)

\* InsertionAction::reversePosition with the positions after the gap left alone
InsertionAction_reversePosition_unshifted(a, read_position) ==
    IF read_position >= a.position /\ read_position < a.position + a.amount
    THEN ByteResult(insertion_value)
    ELSE PositionResult(read_position)

InsertionAction_reversePosition(a, read_position) ==
    IF read_position >= a.position /\ read_position < a.position + a.amount
    THEN ByteResult(insertion_value)
    ELSE IF read_position >= a.position
         THEN PositionResult(read_position - a.amount)
         ELSE PositionResult(read_position)

\* DeletionAction::reversePosition with the deletion taken to begin after position
DeletionAction_reversePosition_after(a, read_position) ==
    IF read_position > a.position
    THEN PositionResult(read_position + a.amount)
    ELSE PositionResult(read_position)

DeletionAction_reversePosition(a, read_position) ==
    IF read_position >= a.position
    THEN PositionResult(read_position + a.amount)
    ELSE PositionResult(read_position)

RECURSIVE reversePosition(_, _)
RECURSIVE ReverseFold(_, _, _)
\* the loop shared by BundledAction::reversePosition and ActionList::readFromStorage:
\* from element i down to the first, stop at the first byte
ReverseFold(list, i, position) ==
    IF i = 0
    THEN PositionResult(position)
    ELSE LET result == reversePosition(list[i], position)
         IN  IF result.is_byte
             THEN result
             ELSE ReverseFold(list, i - 1, result.value)

\* the same loop run from element i up to the last
RECURSIVE ForwardFold(_, _, _)
ForwardFold(list, i, position) ==
    IF i > Len(list)
    THEN PositionResult(position)
    ELSE LET result == reversePosition(list[i], position)
         IN  IF result.is_byte
             THEN result
             ELSE ForwardFold(list, i + 1, result.value)
\* BundledAction::reversePosition with the children taken in their stored order
BundledAction_reversePosition_stored_order(a, position) ==
    ForwardFold(a.actions, 1, position)

BundledAction_reversePosition(a, position) ==
    ReverseFold(a.actions, Len(a.actions), position)

\* virtual dispatch of Action::reversePosition
reversePosition(a, position) ==
    CASE a.kind = "Edit" -> EditAction_reversePosition(a, position)
      [] a.kind = "Insertion" -> InsertionAction_reversePosition(a, position)
      [] a.kind = "Deletion" -> DeletionAction_reversePosition(a, position)
      [] a.kind = "Bundled" -> BundledAction_reversePosition(a, position)
      [] OTHER -> Action_reversePosition(a, position)

\* virtual dispatch of Action::getSizeDifference; BundledAction and EditAction do not
\* override it
getSizeDifference(a) ==
    CASE a.kind = "Insertion" -> a.amount
      [] a.kind = "Deletion" -> a.amount
      [] OTHER -> 0

RECURSIVE canUndo(_)
canUndo(a) ==
    IF a.kind = "Bundled"
    THEN \A i \in 1..Len(a.actions) : canUndo(a.actions[i])
    ELSE a.can_undo

RECURSIVE canRedo(_)
canRedo(a) ==
    IF a.kind = "Bundled"
    THEN \A i \in 1..Len(a.actions) : canRedo(a.actions[i])
    ELSE a.can_redo

\* for (size_t i = actions.size(); i--;): the children in the order the loop
\* reaches them, the first child being 1
DownwardLoop(a) == [j \in 1..Len(a.actions) |-> Len(a.actions) + 1 - j]

\* BundledAction::undo: the status it returns and the children whose undo() it
\* calls, in the order of the calls; the children's statuses are dropped
BundledAction_undo(a) ==
    IF ~canUndo(a)
    THEN [status |-> "Unnable", calls |-> <<>>]
    ELSE [status |-> "Success", calls |-> DownwardLoop(a)]

\* BundledAction::redo: the status it returns and the children whose redo() it
\* calls, in the order of the calls
BundledAction_redo(a) ==
    IF ~canRedo(a)
    THEN [status |-> "Unnable", calls |-> <<>>]
    ELSE [status |-> "Success", calls |-> DownwardLoop(a)]

\* virtual dispatch of Action::undo
Action_undo(a) ==
    IF a.kind = "Bundled"
    THEN BundledAction_undo(a).status
    ELSE a.status

\* virtual dispatch of Action::redo
Action_redo(a) ==
    IF a.kind = "Bundled"
    THEN BundledAction_redo(a).status
    ELSE a.status

(***************************************************************************)
(* class ActionList, on a record [actions, index].  Each operation gives   *)
(* the list after it and the status it returns; "OutOfRange" is the        *)
(* std::out_of_range thrown by vector::at.                                 *)
(***************************************************************************)
hasAppliedEntries(al) == al.index > 0
hasUnappliedEntries(al) == al.index < Len(al.actions)

ListResult(acts, idx, st) == [actions |-> acts, index |-> idx, status |-> st]

\* undo that also drops the action it took back from the list
ActionList_undo_pops(al) ==
    IF ~hasAppliedEntries(al)
    THEN ListResult(al.actions, al.index, "Nothing")
    ELSE IF al.index - 1 >= Len(al.actions)
         THEN ListResult(al.actions, al.index, "OutOfRange")
         ELSE IF ~canUndo(al.actions[al.index])
              THEN ListResult(al.actions, al.index, "Unnable")
              ELSE ListResult(SubSeq(al.actions, 1, al.index - 1)
                                  \o SubSeq(al.actions, al.index + 1, Len(al.actions)),
                              al.index - 1, Action_undo(al.actions[al.index]))

ActionList_undo(al) ==
    IF ~hasAppliedEntries(al)
    THEN ListResult(al.actions, al.index, "Nothing")
    ELSE IF al.index - 1 >= Len(al.actions)
         THEN ListResult(al.actions, al.index, "OutOfRange")
         ELSE IF ~canUndo(al.actions[al.index])
              THEN ListResult(al.actions, al.index, "Unnable")
              ELSE ListResult(al.actions, al.index - 1, Action_undo(al.actions[al.index]))

\* redo without index++
ActionList_redo_no_increment(al) ==
    IF ~hasUnappliedEntries(al)
    THEN ListResult(al.actions, al.index, "Nothing")
    ELSE IF ~canRedo(al.actions[al.index + 1])
         THEN ListResult(al.actions, al.index, "Unnable")
         ELSE ListResult(al.actions, al.index, Action_redo(al.actions[al.index + 1]))

ActionList_redo(al) ==
    IF ~hasUnappliedEntries(al)
    THEN ListResult(al.actions, al.index, "Nothing")
    ELSE IF ~canRedo(al.actions[al.index + 1])
         THEN ListResult(al.actions, al.index, "Unnable")
         ELSE ListResult(al.actions, al.index + 1, Action_redo(al.actions[al.index + 1]))

\* clearUnappliedActions with the loop body left out
clearUnappliedActions_keeps_tail(al) == al.actions

clearUnappliedActions(al) ==
    IF ~hasUnappliedEntries(al)
    THEN al.actions
    ELSE SubSeq(al.actions, 1, al.index)

doAction(al, action) ==
    LET acts == Append(clearUnappliedActions(al), action)
        idx == al.index + 1
    IN  IF idx - 1 >= Len(acts)
        THEN ListResult(acts, idx, "OutOfRange")
        ELSE ListResult(acts, idx, Action_redo(acts[idx]))

\* readFromStorage with the loop run from the oldest action to the newest
readFromStorage_oldest_first(acts, position) == ForwardFold(acts, 1, position)

readFromStorage(acts, position) == ReverseFold(acts, Len(acts), position)

(***************************************************************************)
(* class FileHelper::File, on a record [data, fail]: the bytes of the file *)
(* and the stream's failbit.  Once failbit is set every seek, read and     *)
(* write of the stream does nothing until the stream is reopened.          *)
(***************************************************************************)
Stream(bytes, failed) == [data |-> bytes, fail |-> failed]
\* a size_t offset converted to the signed std::streampos
SeekOk(position) == position < Word \div 2

\* size_t File::read(absolute_position, amount, into): the stream after it and the
\* bytes read (gcount of them)
File_read(f, absolute_position, amount) ==
    IF f.fail
    THEN [file |-> f, bytes |-> <<>>]
    ELSE IF ~SeekOk(absolute_position)
         THEN [file |-> Stream(f.data, TRUE), bytes |-> <<>>]
         ELSE LET available == Max(0, Len(f.data) - absolute_position)
                  count == Min(amount, available)
              IN  [file |-> Stream(f.data, count < amount),
                   bytes |-> SubSeq(f.data, absolute_position + 1, absolute_position + count)]

\* void File::write(absolute_position, amount, data): a write past the end leaves a
\* gap of zero bytes
File_write(f, absolute_position, bytes) ==
    IF f.fail
    THEN f
    ELSE IF ~SeekOk(absolute_position)
         THEN Stream(f.data, TRUE)
         ELSE IF Len(bytes) = 0
              THEN f
              ELSE LET size == Max(Len(f.data), absolute_position + Len(bytes))
                   IN  Stream([i \in 1..size |->
                                  IF i > absolute_position /\ i <= absolute_position + Len(bytes)
                                  THEN bytes[i - absolute_position]
                                  ELSE IF i <= Len(f.data) THEN f.data[i] ELSE 0],
                              FALSE)

\* File::getSize closes and reopens the stream, which clears its state
File_getSize(f) == Stream(f.data, FALSE)

\* File::resize, std::filesystem::resize_file
ResizeBytes(bytes, amount) ==
    [i \in 1..amount |-> IF i <= Len(bytes) THEN bytes[i] ELSE 0]
File_resize(f, amount) == Stream(ResizeBytes(f.data, amount), FALSE)

\* util::getChunkedWithRemainder, written out in File::insertionNoOverwrite and
\* File::deletion
Iterations(amount, chunk_size) ==
    (amount \div chunk_size) + (IF amount % chunk_size = 0 THEN 0 ELSE 1)

RECURSIVE InsertionShiftLoop(_, _, _, _, _, _, _)
\* the for loop of File::insertionNoOverwrite from iteration i on; an iteration on a
\* failed stream moves nothing, so the loop's effect ends with the first failure
InsertionShiftLoop(f, i, shift_iterations, shift_end, first_slice_amount, amount, chunk_size) ==
    IF i >= shift_iterations \/ f.fail
    THEN f
    ELSE LET slice_start == USub(USub(shift_end, first_slice_amount), UMul(i, chunk_size))
             slice_amount == IF i = 0 THEN first_slice_amount ELSE chunk_size
             slice_destination == UAdd(slice_start, amount)
             got == File_read(f, slice_start, slice_amount)
         IN  InsertionShiftLoop(File_write(got.file, slice_destination, got.bytes),
                                i + 1, shift_iterations, shift_end, first_slice_amount,
                                amount, chunk_size)

insertionNoOverwrite(f, absolute_position, amount, chunk_size) ==
    LET shift_end == Len(f.data)
        shift_amount == USub(shift_end, absolute_position)
        shift_iterations == Iterations(shift_amount, chunk_size)
        first_slice_amount == IF shift_end % chunk_size = 0
                              THEN chunk_size
                              ELSE shift_end % chunk_size
    IN  InsertionShiftLoop(File_getSize(f), 0, shift_iterations, shift_end,
                           first_slice_amount, amount, chunk_size)

RECURSIVE InsertionFillLoop(_, _, _, _, _, _)
\* the second loop of File::insertion(absolute_position, amount, chunk_size)
InsertionFillLoop(f, i, amount_iterations, absolute_position, amount_end, chunk_size) ==
    IF i >= amount_iterations \/ f.fail
    THEN f
    ELSE LET slice_start == UAdd(absolute_position, UMul(i, chunk_size))
             slice_end == Min(UAdd(slice_start, chunk_size), amount_end)
             slice_amount == USub(slice_end, slice_start)
         IN  InsertionFillLoop(File_write(f, slice_start, Zeros(slice_amount)),
                               i + 1, amount_iterations, absolute_position, amount_end,
                               chunk_size)

\* File::insertion(absolute_position, amount, chunk_size): shift, then fill with 0x00
File_insertion(f, absolute_position, amount, chunk_size) ==
    InsertionFillLoop(insertionNoOverwrite(f, absolute_position, amount, chunk_size),
                      0, Iterations(amount, chunk_size), absolute_position,
                      UAdd(absolute_position, amount), chunk_size)

\* File::insertion(absolute_position, data, chunk_size): shift, then write data
File_insertionData(f, absolute_position, bytes, chunk_size) ==
    File_write(insertionNoOverwrite(f, absolute_position, Len(bytes), chunk_size),
               absolute_position, bytes)

RECURSIVE DeletionShiftLoop(_, _, _, _, _, _, _)
\* the for loop of File::deletion from iteration i on
DeletionShiftLoop(f, i, shift_iterations, shift_start, shift_end, amount, chunk_size) ==
    IF i >= shift_iterations \/ f.fail
    THEN f
    ELSE LET slice_start == UAdd(shift_start, UMul(i, chunk_size))
             slice_end == Min(UAdd(slice_start, chunk_size), shift_end)
             slice_amount == USub(slice_end, slice_start)
             got == File_read(f, slice_start, slice_amount)
         IN  DeletionShiftLoop(File_write(got.file, USub(slice_start, amount), got.bytes),
                               i + 1, shift_iterations, shift_start, shift_end, amount,
                               chunk_size)

\* shift_iterations of File::deletion on a file of shift_end bytes: the number of
\* turns of its for loop, each one read and one write
deletion_shift_iterations(shift_end, absolute_position, amount, chunk_size) ==
    Iterations(USub(shift_end, UAdd(absolute_position, amount)), chunk_size)

\* File::deletion with the shift begun at absolute_position
File_deletion_from_position(f, absolute_position, amount, chunk_size) ==
    LET shift_start == absolute_position
        shift_end == Len(f.data)
        shift_amount == USub(shift_end, shift_start)
        shift_iterations == Iterations(shift_amount, chunk_size)
    IN  DeletionShiftLoop(File_getSize(f), 0, shift_iterations, shift_start, shift_end,
                          amount, chunk_size)

\* File::deletion: it does not resize the file
File_deletion(f, absolute_position, amount, chunk_size) ==
    LET shift_start == UAdd(absolute_position, amount)
        shift_end == Len(f.data)
        shift_iterations == deletion_shift_iterations(shift_end, absolute_position,
                                                      amount, chunk_size)
    IN  DeletionShiftLoop(File_getSize(f), 0, shift_iterations, shift_start, shift_end,
                          amount, chunk_size)

(***************************************************************************)
(* Action::save and ActionList::save.                                      *)
(***************************************************************************)
EditAction_save(a, f) == File_write(f, a.position, a.data)
InsertionAction_save(a, f) ==
    File_insertion(f, InsertionSavePosition, a.amount, InsertionSaveChunk)
DeletionAction_save(a, f) ==
    File_deletion(f, DeletionSavePosition, a.amount, DeletionSaveChunk)

RECURSIVE Action_save(_, _)
RECURSIVE SaveLoop(_, _, _)
\* for (action : actions) action->save(file), from element i on
SaveLoop(list, i, f) ==
    IF i > Len(list)
    THEN f
    ELSE SaveLoop(list, i + 1, Action_save(list[i], f))

BundledAction_save(a, f) == SaveLoop(a.actions, 1, f)

\* virtual dispatch of Action::save; a client's action writes nothing
Action_save(a, f) ==
    CASE a.kind = "Edit" -> EditAction_save(a, f)
      [] a.kind = "Insertion" -> InsertionAction_save(a, f)
      [] a.kind = "Deletion" -> DeletionAction_save(a, f)
      [] a.kind = "Bundled" -> BundledAction_save(a, f)
      [] OTHER -> f

\* ActionList::save: the file after every action of the list is saved to it; the
\* list is then cleared and index is left as it is
ActionList_save(al, f) ==
    [file |-> SaveLoop(al.actions, 1, f), actions |-> <<>>, index |-> al.index]

(***************************************************************************)
(* FileMode and its subclasses, FileModeInfo.                              *)
(***************************************************************************)
WholeFileMode == [kind |-> "Whole", start |-> None, end |-> None]
PartialFileMode(t_start, t_end) == [kind |-> "Partial", start |-> t_start, end |-> t_end]
OpenPartialFileMode(t_start) == [kind |-> "OpenPartial", start |-> t_start, end |-> None]
JohnFileMode(t_start, t_end) == [kind |-> "John", start |-> t_start, end |-> t_end]

supportsInsertion(m) == m.kind \in {"Whole", "OpenPartial"}
supportsDeletion(m) == m.kind \in {"Whole", "OpenPartial"}
getSaveAsMode(m) == IF m.kind = "John" THEN "Partial" ELSE "Whole"

(***************************************************************************)
(* class File::Constraint.                                                 *)
(***************************************************************************)
\* the constructor's range check: only a window of no bytes is refused
Constraint_accepts(t_start, t_end) ==
    ~(t_start # None /\ t_end # None /\ t_start = t_end)

\* the constructor with the file looked for before the range is checked
Constraint_Constraint_file_first(file_exists, t_start, t_end) ==
    IF ~file_exists
    THEN "FileDoesNotExist"
    ELSE IF ~Constraint_accepts(t_start, t_end)
         THEN "RangeError"
         ELSE "Ok"

\* Constraint::Constraint: what it throws, or Ok when the file is opened
Constraint_Constraint(file_exists, t_start, t_end) ==
    IF ~Constraint_accepts(t_start, t_end)
    THEN "RangeError"
    ELSE IF ~file_exists
         THEN "FileDoesNotExist"
         ELSE "Ok"

PositionRangeError == -2
\* Constraint::convert: the absolute position, or PositionRangeError when it throws
convert(m, pos) ==
    LET i_pos == IF m.start # None THEN UAdd(pos, m.start) ELSE pos
    IN  IF m.end # None /\ i_pos >= m.end
        THEN PositionRangeError
        ELSE i_pos

\* Constraint::read_internal: at most amount bytes from pos, fewer at the end of file
read_internal(bytes, pos, amount) ==
    SubSeq(bytes, pos + 1, Min(pos + amount, Len(bytes)))

(***************************************************************************)
(* class Helix: the block cache and read.                                  *)
(***************************************************************************)
NoByte == -1
\* Flags::max_block_count as the editor is constructed with it; createBlock and
\* readSingleRaw never read it
max_block_count == 1
Block(t_start, t_data) == [start_position |-> t_start, data |-> t_data]

\* util::getRoundedPosition
getRoundedPosition(position) == position - (position % BlockSize)

\* util::find_one: the index of the first block that starts there, or None
findBlock(blks, rounded_position) ==
    IF \E i \in 1..Len(blks) : blks[i].start_position = rounded_position
    THEN CHOOSE i \in 1..Len(blks) :
            /\ blks[i].start_position = rounded_position
            /\ \A j \in 1..(i - 1) : blks[j].start_position # rounded_position
    ELSE None

\* Helix::createBlock: the cache after it and the new block's index (None when no
\* byte was read, PositionRangeError when convert throws)
createBlock(blks, m, stream_bytes, position) ==
    LET absolute == convert(m, position)
    IN  IF absolute = PositionRangeError
        THEN [blocks |-> blks, index |-> PositionRangeError]
        ELSE LET bytes == read_internal(stream_bytes, absolute, BlockSize)
             IN  IF Len(bytes) = 0
                 THEN [blocks |-> blks, index |-> None]
                 ELSE [blocks |-> Append(blks, Block(position, bytes)),
                       index |-> Len(blks) + 1]

\* readSingleRaw that loads the block without looking for it in the cache
readSingleRaw_always_loads(blks, m, stream_bytes, pos) ==
    LET rounded_position == getRoundedPosition(pos)
        made == createBlock(blks, m, stream_bytes, rounded_position)
        block_pos == pos - rounded_position
    IN  IF made.index = PositionRangeError
        THEN [blocks |-> made.blocks, result |-> PositionRangeError]
        ELSE IF made.index = None
             THEN [blocks |-> made.blocks, result |-> NoByte]
             ELSE IF block_pos >= Len(made.blocks[made.index].data)
                  THEN [blocks |-> made.blocks, result |-> NoByte]
                  ELSE [blocks |-> made.blocks,
                        result |-> made.blocks[made.index].data[block_pos + 1]]

\* Helix::readSingleRaw: the cache after it and the byte, NoByte or PositionRangeError
readSingleRaw(blks, m, stream_bytes, pos) ==
    LET rounded_position == getRoundedPosition(pos)
        found == findBlock(blks, rounded_position)
        made == IF found = None
                THEN createBlock(blks, m, stream_bytes, rounded_position)
                ELSE [blocks |-> blks, index |-> found]
        block_pos == pos - rounded_position
    IN  IF made.index = PositionRangeError
        THEN [blocks |-> made.blocks, result |-> PositionRangeError]
        ELSE IF made.index = None
             THEN [blocks |-> made.blocks, result |-> NoByte]
             ELSE IF block_pos >= Len(made.blocks[made.index].data)
                  THEN [blocks |-> made.blocks, result |-> NoByte]
                  ELSE [blocks |-> made.blocks,
                        result |-> made.blocks[made.index].data[block_pos + 1]]

\* Helix::read(Natural)
Helix_read(acts, blks, m, stream_bytes, position) ==
    LET data == readFromStorage(acts, position)
    IN  IF data.is_byte
        THEN [blocks |-> blks, result |-> data.value]
        ELSE readSingleRaw(blks, m, stream_bytes, data.value)

RECURSIVE ReadLoop_one_more(_, _, _, _, _, _, _, _)
\* the loop run while i <= amount
ReadLoop_one_more(acts, blks, m, stream_bytes, position, amount, i, data) ==
    IF i > amount
    THEN [blocks |-> blks, result |-> data, status |-> "Ok"]
    ELSE LET byte_opt == Helix_read(acts, blks, m, stream_bytes, position + i)
         IN  IF byte_opt.result = PositionRangeError
             THEN [blocks |-> byte_opt.blocks, result |-> <<>>,
                   status |-> "PositionRangeError"]
             ELSE IF byte_opt.result = NoByte
                  THEN [blocks |-> byte_opt.blocks, result |-> data, status |-> "Ok"]
                  ELSE ReadLoop_one_more(acts, byte_opt.blocks, m, stream_bytes,
                                         position, amount, i + 1,
                                         Append(data, byte_opt.result))

RECURSIVE ReadLoop(_, _, _, _, _, _, _, _)
\* the loop of Helix::read(Natural, size_t) from i on: stops at the first position
\* with no byte
ReadLoop(acts, blks, m, stream_bytes, position, amount, i, data) ==
    IF i >= amount
    THEN [blocks |-> blks, result |-> data, status |-> "Ok"]
    ELSE LET byte_opt == Helix_read(acts, blks, m, stream_bytes, position + i)
         IN  IF byte_opt.result = PositionRangeError
             THEN [blocks |-> byte_opt.blocks, result |-> <<>>,
                   status |-> "PositionRangeError"]
             ELSE IF byte_opt.result = NoByte
                  THEN [blocks |-> byte_opt.blocks, result |-> data, status |-> "Ok"]
                  ELSE ReadLoop(acts, byte_opt.blocks, m, stream_bytes, position,
                                amount, i + 1, Append(data, byte_opt.result))

\* Helix::read(Natural, size_t)
Helix_readAmount(acts, blks, m, stream_bytes, position, amount) ==
    ReadLoop(acts, blks, m, stream_bytes, position, amount, 0, <<>>)

(***************************************************************************)
(* class Helix: save.                                                      *)
(***************************************************************************)
RECURSIVE SizeLoop(_, _, _)
\* the loop of Helix::save_calculateResultingFileSize from element i on
SizeLoop(acts, i, new_file_size) ==
    IF i > Len(acts)
    THEN new_file_size
    ELSE SizeLoop(acts, i + 1, UAdd(new_file_size, getSizeDifference(acts[i])))

save_calculateResultingFileSize(acts, previous_file_size) ==
    SizeLoop(acts, 1, previous_file_size)

\* std::filesystem::path: the sequence of its filenames, "" last for a path that
\* ends in a separator
RECURSIVE NormalLoop(_, _, _)
\* lexically_normal: "." is dropped, "name/.." cancels
NormalLoop(path, i, stack) ==
    IF i > Len(path)
    THEN stack
    ELSE IF path[i] \in {".", ""}
         THEN NormalLoop(path, i + 1, stack)
         ELSE IF path[i] = ".." /\ stack # <<>> /\ stack[Len(stack)] # ".."
              THEN NormalLoop(path, i + 1, SubSeq(stack, 1, Len(stack) - 1))
              ELSE NormalLoop(path, i + 1, Append(stack, path[i]))

\* path::lexically_normal: the empty path stays empty, a path that comes out empty
\* is ".", a directory left at the end keeps its separator
lexically_normal(path) ==
    IF path = <<>>
    THEN <<>>
    ELSE LET stack == NormalLoop(path, 1, <<>>)
         IN  IF stack = <<>>
             THEN <<".">>
             ELSE IF path[Len(path)] \in {"", ".", ".."} /\ stack[Len(stack)] # ".."
                  THEN Append(stack, "")
                  ELSE stack

\* path::filename and path::parent_path
path_filename(path) == IF path = <<>> THEN "" ELSE path[Len(path)]
parent_path(path) == SubSeq(path, 1, Len(path) - 1)

\* Helix::save_hasValidFilename
save_hasValidFilename(file_path) == path_filename(file_path) \notin {"", ".", ".."}

\* file.filename, the canonical path of the opened file, and the directories there are
OpenedPath == <<"home", "in.bin">>
Directories == {<<"home">>}
exists(path) == path \in Directories

\* Helix::saveAsFile up to its checks: the SaveStatus and the destination
saveAsFile_destination(initial_destination) ==
    LET destination == lexically_normal(initial_destination)
        placed == IF parent_path(destination) = <<>>
                  THEN parent_path(OpenedPath) \o destination
                  ELSE destination
    IN  IF destination = <<>> \/ ~save_hasValidFilename(destination)
        THEN [status |-> "InvalidFilename", path |-> destination]
        ELSE IF ~exists(parent_path(placed))
             THEN [status |-> "InvalidDestination", path |-> placed]
             ELSE [status |-> "Success", path |-> placed]

\* Helix::saveAsFile from the copy to the second resize: the bytes of the temporary
\* file that is then renamed to the destination
saveAsFile_temp(al, source_bytes) ==
    LET previous == Len(source_bytes)
        result == save_calculateResultingFileSize(al.actions, previous)
        copied == ResizeBytes(source_bytes, Max(previous, result))
        saved == ActionList_save(al, Stream(copied, FALSE))
    IN  File_resize(saved.file, result).data

\* Helix::save_file_simple: the actions are saved to the open stream of the editor
save_file_simple(al, stream_bytes) ==
    ActionList_save(al, Stream(stream_bytes, FALSE)).file.data

(***************************************************************************)
(* The editor as a state machine.                                          *)
(***************************************************************************)
VARIABLES
    mode_info,   \* Helix::mode_info
    disk,        \* the bytes of the file at the path the editor was opened on
    stream,      \* the bytes the editor's open stream reads (Constraint::file)
    out,         \* the bytes of the file at the other path, NoFile while there is none
    actions,     \* ActionList::actions
    index,       \* ActionList::index
    blocks,      \* Helix::blocks
    last,        \* the last operation: its name, arguments and outcome
    hist,        \* the names of the operations done, oldest first ("refused": it threw
                 \* a mode error)
    before_do,   \* what read returned at every position before the last doAction
    after_do,    \* the log and what read returned right after the last doAction
    ops,         \* operations done so far
    limit,       \* operations the run may do
    saving       \* Helix::saveAsFile under way: its position, the temporary file,
                 \* the destination, the next action to save, the resulting size

vars == <<mode_info, disk, stream, out, actions, index, blocks, last, hist,
          before_do, after_do, ops, limit, saving>>

NoFile == <<None>>

Positions == 0..MaxPos
Amounts == 1..MaxAmount
ReadPositions == 0..MaxReadPos
ReadArgs == 0..MaxReadArg
\* the byte vectors passed to edit: of every length, starting with every byte
EditValues == {[i \in 1..n |-> ((b + i) % MaxByte) + 1] : n \in 0..MaxDataLen, b \in 1..MaxByte}
PatternBytes == {insertion_value, MaxByte + 1}
ClientActions == {ClientAction(FALSE, TRUE, "Success"),
                  ClientAction(TRUE, FALSE, "Success"),
                  ClientAction(TRUE, TRUE, "UnknownFailure")}
\* the file the editor is opened on: byte 10 + p at offset p
FileBytes(n) == [i \in 1..n |-> 10 + i - 1]
\* the paths passed to saveAs: "", ".", "..", "out.bin", "dir/out.bin", "dir/.."
\* and "out.bin/."
Destinations == {<<>>, <<".">>, <<"..">>, <<"out.bin">>, <<"dir", "out.bin">>,
                 <<"dir", "..">>, <<"out.bin", ".">>}
FileModes == {WholeFileMode, PartialFileMode(WinStart, WinEnd),
              OpenPartialFileMode(WinStart), JohnFileMode(WinStart, WinEnd)}

List == [actions |-> actions, index |-> index]

\* what Helix::read returns at every position of ReadPositions
ViewOf(acts, blks, m, stream_bytes) ==
    [n \in ReadPositions |-> Helix_read(acts, blks, m, stream_bytes, n).result]
View == ViewOf(actions, blocks, mode_info, stream)

Outcome(op, position, amount, data, status, result) ==
    [op |-> op, position |-> position, amount |-> amount, data |-> data,
     status |-> status, result |-> result,
     pre_index |-> index, pre_size |-> Len(actions)]

NotSaving == [pc |-> "none", op |-> "none", to |-> <<>>, temp |-> Stream(<<>>, FALSE),
              i |-> 0, result |-> 0]

Remember(op) ==
    /\ hist' = Append(hist, op)
    /\ ops' = ops + 1
    /\ limit' = limit
    /\ saving' = saving

Init ==
    /\ mode_info \in {m \in FileModes : Constraint_accepts(m.start, m.end)}
    /\ disk = FileBytes(MaxFileLen)
    /\ stream = disk
    /\ out = NoFile
    /\ actions = <<>>
    /\ index = 0
    /\ blocks = <<>>
    /\ last = [op |-> "open", position |-> 0, amount |-> 0, data |-> <<>>,
               status |-> "Ok", result |-> NoByte, pre_index |-> 0, pre_size |-> 0]
    /\ hist = <<>>
    /\ ops = 0
    /\ limit = MaxOps
    /\ saving = NotSaving
    /\ before_do = ViewOf(<<>>, <<>>, mode_info, disk)
    /\ after_do = [actions |-> <<>>, index |-> 0,
                   view |-> ViewOf(<<>>, <<>>, mode_info, disk), action |-> ClientAction(TRUE, TRUE, "Success")]

\* doAction that also writes the action to the opened file at once
Do_write_through(op, action, position, amount, data) ==
    LET done == doAction(List, action)
    IN  /\ actions' = done.actions
        /\ index' = done.index
        /\ last' = Outcome(op, position, amount, data,
                           IF op = "doAction" \/ done.status = "OutOfRange"
                           THEN done.status ELSE "Ok",
                           NoByte)
        /\ before_do' = View
        /\ after_do' = [actions |-> done.actions, index |-> done.index,
                        view |-> ViewOf(done.actions, blocks, mode_info, stream),
                        action |-> action]
        /\ Remember(op)
        /\ disk' = Action_save(action, Stream(disk, FALSE)).data
        /\ stream' = disk'
        /\ UNCHANGED <<mode_info, out, blocks>>

\* ActionList::doAction reached through op; void callers drop the status
Do(op, action, position, amount, data) ==
    LET done == doAction(List, action)
    IN  /\ actions' = done.actions
        /\ index' = done.index
        /\ last' = Outcome(op, position, amount, data,
                           IF op = "doAction" \/ done.status = "OutOfRange"
                           THEN done.status ELSE "Ok",
                           NoByte)
        /\ before_do' = View
        /\ after_do' = [actions |-> done.actions, index |-> done.index,
                        view |-> ViewOf(done.actions, blocks, mode_info, stream),
                        action |-> action]
        /\ Remember(op)
        /\ UNCHANGED <<mode_info, disk, stream, out, blocks>>

\* an operation that throws before it changes anything
Refused(op, position, amount, status) ==
    /\ last' = Outcome(op, position, amount, <<>>, status, NoByte)
    /\ Remember("refused")
    /\ UNCHANGED <<mode_info, disk, stream, out, actions, index, blocks,
                   before_do, after_do>>

\* Helix::edit(Natural, std::vector<std::byte>&&)
Edit(position, values) ==
    /\ ops < limit
    /\ Do("edit", EditAction(position, values), position, Len(values), values)

\* the action Helix::insert(Natural, size_t, std::byte) records
InsertAction(position, amount, pattern) ==
    IF pattern = insertion_value
    THEN InsertionAction(position, amount)
    ELSE BundledAction(<<InsertionAction(position, amount),
                         EditAction(position, [i \in 1..amount |-> pattern])>>)

\* Helix::insert(Natural, size_t, std::byte)
Insert(position, amount, pattern) ==
    /\ ops < limit
    /\ IF ~supportsInsertion(mode_info)
       THEN Refused("insert", position, amount, "ModeError")
       ELSE Do("insert", InsertAction(position, amount, pattern), position, amount,
               <<pattern>>)

\* the action with the pattern not repeated: past its end the last byte goes on
InsertPatternAction_untiled(position, amount, pattern) ==
    BundledAction(<<InsertionAction(position, amount),
                    EditAction(position,
                               [i \in 1..amount |-> pattern[Min(i, Len(pattern))]])>>)

\* the action Helix::insert(Natural, size_t, const std::vector<std::byte>&) records
InsertPatternAction(position, amount, pattern) ==
    BundledAction(<<InsertionAction(position, amount),
                    EditAction(position,
                               [i \in 1..amount |-> pattern[((i - 1) % Len(pattern)) + 1]])>>)

\* Helix::insert(Natural, size_t, const std::vector<std::byte>&)
InsertPattern(position, amount, pattern) ==
    /\ ops < limit
    /\ IF ~supportsInsertion(mode_info)
       THEN Refused("insert", position, amount, "ModeError")
       ELSE Do("insert(vector)", InsertPatternAction(position, amount, pattern),
               position, amount, pattern)

\* Helix::deletion
Deletion(position, amount) ==
    /\ ops < limit
    /\ IF ~supportsDeletion(mode_info)
       THEN Refused("deletion", position, amount, "ModeError")
       ELSE Do("deletion", DeletionAction(position, amount), position, amount, <<>>)

\* actions.doAction with an action of the client's own
DoClient(action) ==
    /\ ops < limit
    /\ Do("doAction", action, 0, 0, <<>>)

\* actions.undo()
Undo ==
    /\ ops < limit
    /\ LET r == ActionList_undo(List)
       IN  /\ actions' = r.actions
           /\ index' = r.index
           /\ last' = Outcome("undo", 0, 0, <<>>, r.status, NoByte)
    /\ Remember("undo")
    /\ UNCHANGED <<mode_info, disk, stream, out, blocks, before_do, after_do>>

\* actions.redo()
Redo ==
    /\ ops < limit
    /\ LET r == ActionList_redo(List)
       IN  /\ actions' = r.actions
           /\ index' = r.index
           /\ last' = Outcome("redo", 0, 0, <<>>, r.status, NoByte)
    /\ Remember("redo")
    /\ UNCHANGED <<mode_info, disk, stream, out, blocks, before_do, after_do>>

\* actions.clearUnappliedActions()
ClearUnapplied ==
    /\ ops < limit
    /\ actions' = clearUnappliedActions(List)
    /\ last' = Outcome("clearUnappliedActions", 0, 0, <<>>, "Ok", NoByte)
    /\ Remember("clearUnappliedActions")
    /\ UNCHANGED <<mode_info, disk, stream, out, index, blocks, before_do, after_do>>

\* Helix::read(Natural)
Read(position) ==
    /\ ops < limit
    /\ LET r == Helix_read(actions, blocks, mode_info, stream, position)
       IN  /\ blocks' = r.blocks
           /\ last' = Outcome("read", position, 1, <<>>,
                              IF r.result = PositionRangeError
                              THEN "PositionRangeError" ELSE "Ok",
                              r.result)
    /\ Remember("read")
    /\ UNCHANGED <<mode_info, disk, stream, out, actions, index, before_do, after_do>>

\* Helix::saveAsFile: nothing is done when the destination is refused; else
\* file.getSize() reopens the stream and the temporary file is renamed to the
\* destination, the opened path or the other path
SaveAsFile(op, initial_destination) ==
    LET target == saveAsFile_destination(initial_destination)
        saved == ActionList_save(List, Stream(<<>>, FALSE))
    IN  /\ IF target.status # "Success"
           THEN UNCHANGED <<disk, stream, out, actions, index>>
           ELSE /\ stream' = disk
                /\ IF target.path = OpenedPath
                   THEN disk' = saveAsFile_temp(List, disk) /\ out' = out
                   ELSE out' = saveAsFile_temp(List, disk) /\ disk' = disk
                /\ actions' = saved.actions
                /\ index' = saved.index
        /\ last' = Outcome(op, 0, 0, initial_destination, target.status, NoByte)

\* Helix::save
Save ==
    /\ ops < limit
    /\ IF getSaveAsMode(mode_info) = "Whole"
       THEN SaveAsFile("save", OpenedPath)
       ELSE /\ stream' = save_file_simple(List, stream)
            /\ disk' = stream'
            /\ actions' = ActionList_save(List, Stream(<<>>, FALSE)).actions
            /\ index' = ActionList_save(List, Stream(<<>>, FALSE)).index
            /\ last' = Outcome("save", 0, 0, <<>>, "Success", NoByte)
            /\ out' = out
    /\ Remember("save")
    /\ UNCHANGED <<mode_info, blocks, before_do, after_do>>

\* Helix::saveAs doing in its partial branch what Helix::save does there
SaveAs_partial_saves(destination) ==
    /\ ops < limit
    /\ IF getSaveAsMode(mode_info) = "Whole"
       THEN SaveAsFile("saveAs", destination)
       ELSE /\ stream' = save_file_simple(List, stream)
            /\ disk' = stream'
            /\ actions' = ActionList_save(List, Stream(<<>>, FALSE)).actions
            /\ index' = ActionList_save(List, Stream(<<>>, FALSE)).index
            /\ last' = Outcome("saveAs", 0, 0, destination, "Success", NoByte)
            /\ out' = out
    /\ Remember("saveAs")
    /\ UNCHANGED <<mode_info, blocks, before_do, after_do>>

\* Helix::saveAs
SaveAs(destination) ==
    /\ ops < limit
    /\ IF getSaveAsMode(mode_info) = "Whole"
       THEN SaveAsFile("saveAs", destination)
       ELSE /\ last' = Outcome("saveAs", 0, 0, destination, "Success", NoByte)
            /\ UNCHANGED <<disk, stream, out, actions, index>>
    /\ Remember("saveAs")
    /\ UNCHANGED <<mode_info, blocks, before_do, after_do>>

Next ==
    \/ \E position \in Positions, values \in EditValues : Edit(position, values)
    \/ \E position \in Positions, amount \in Amounts, pattern \in PatternBytes :
          Insert(position, amount, pattern)
    \/ \E position \in Positions, amount \in Amounts : Deletion(position, amount)
    \/ \E action \in ClientActions : DoClient(action)
    \/ Undo
    \/ Redo
    \/ ClearUnapplied
    \/ \E position \in ReadArgs : Read(position)
    \/ Save
    \/ \E destination \in Destinations : SaveAs(destination)

Spec == Init /\ [][Next]_vars

\* Helix::read(Natural, size_t)
ReadAmount(position, amount) ==
    /\ ops < limit
    /\ LET r == Helix_readAmount(actions, blocks, mode_info, stream, position, amount)
       IN  /\ blocks' = r.blocks
           /\ last' = Outcome("read", position, amount, <<>>, r.status, r.result)
    /\ Remember("read")
    /\ UNCHANGED <<mode_info, disk, stream, out, actions, index, before_do, after_do>>

(***************************************************************************)
(* Insertions and deletions in the middle of a file of six bytes, "ABCDEF", *)
(* opened whole: both overloads of insert, with patterns longer and shorter *)
(* than the amount.                                                        *)
(***************************************************************************)
MiddlePositions == 1..(MaxPos + 1)
TileAmounts == 1..MaxTile
\* the vectors passed to insert: two bytes to repeat, and the zero byte alone
Patterns == {<<1, 2>>, <<insertion_value>>}
\* the positions read(position, 6) is called with
RangeStarts == {0, MaxReadArg}

InsertInit ==
    /\ mode_info = WholeFileMode
    /\ disk = FileBytes(6)
    /\ stream = disk
    /\ out = NoFile
    /\ actions = <<>>
    /\ index = 0
    /\ blocks = <<>>
    /\ last = [op |-> "open", position |-> 0, amount |-> 0, data |-> <<>>,
               status |-> "Ok", result |-> NoByte, pre_index |-> 0, pre_size |-> 0]
    /\ hist = <<>>
    /\ ops = 0
    /\ limit = MaxOps
    /\ saving = NotSaving
    /\ before_do = ViewOf(<<>>, <<>>, mode_info, disk)
    /\ after_do = [actions |-> <<>>, index |-> 0,
                   view |-> ViewOf(<<>>, <<>>, mode_info, disk),
                   action |-> ClientAction(TRUE, TRUE, "Success")]

InsertNext ==
    \/ \E position \in MiddlePositions, amount \in Amounts, pattern \in PatternBytes :
          Insert(position, amount, pattern)
    \/ \E position \in MiddlePositions, amount \in TileAmounts, pattern \in Patterns :
          InsertPattern(position, amount, pattern)
    \/ \E position \in MiddlePositions, amount \in Amounts : Deletion(position, amount)
    \/ \E values \in {values \in EditValues : Len(values) = 1} : Edit(0, values)
    \/ Undo
    \/ Redo
    \/ Save
    \/ \E position \in RangeStarts : ReadAmount(position, 6)

InsertSpec == InsertInit /\ [][InsertNext]_vars

(***************************************************************************)
(* The actions one call at a time: a list of actions as doAction leaves it, *)
(* and one call of reversePosition, readFromStorage, getSizeDifference or  *)
(* save on it.                                                             *)
(***************************************************************************)
\* the actions Helix records and a Bundled action of an edit and an insertion
UnitActions ==
    {EditAction(p, values) : p \in Positions, values \in EditValues}
    \cup {InsertionAction(p, n) : p \in Positions, n \in Amounts}
    \cup {DeletionAction(p, n) : p \in Positions, n \in Amounts}
    \cup {InsertAction(p, n, MaxByte + 1) : p \in Positions, n \in Amounts}
    \cup {BundledAction(<<EditAction(p, <<MaxByte + 1>>), DeletionAction(p, n)>>) :
              p \in Positions, n \in Amounts}
    \cup {BundledAction(<<EditAction(0, <<MaxByte + 1>>), action>>) :
              action \in ClientActions}
ActionLists == {<<>>} \cup {<<a>> : a \in UnitActions}
                      \cup {<<a, b>> : a \in UnitActions, b \in UnitActions}

ActionInit ==
    /\ mode_info = WholeFileMode
    /\ disk = FileBytes(MaxFileLen)
    /\ stream = disk
    /\ out = NoFile
    /\ actions \in ActionLists
    /\ index = Len(actions)
    /\ blocks = <<>>
    /\ last = [op |-> "open", k |-> 0, position |-> 0, result |-> NoByte,
               before |-> disk]
    /\ hist = <<>>
    /\ ops = 0
    /\ limit = MaxFileOps
    /\ saving = NotSaving
    /\ before_do = ViewOf(<<>>, <<>>, mode_info, disk)
    /\ after_do = [actions |-> <<>>, index |-> 0,
                   view |-> ViewOf(<<>>, <<>>, mode_info, disk),
                   action |-> ClientAction(TRUE, TRUE, "Success")]

\* a call that changes nothing
ActionCall(op, k, position, result) ==
    /\ ops < limit
    /\ last' = [op |-> op, k |-> k, position |-> position, result |-> result,
                before |-> disk]
    /\ Remember(op)
    /\ UNCHANGED <<mode_info, disk, stream, out, actions, index, blocks, before_do,
                   after_do>>

\* actions.at(k - 1)->reversePosition(read_position)
ReversePosition(k, read_position) ==
    /\ k \in 1..Len(actions)
    /\ ActionCall("reversePosition", k, read_position,
                  reversePosition(actions[k], read_position))

\* actions.readFromStorage(position)
ReadFromStorage(position) ==
    /\ position \in ReadPositions
    /\ ActionCall("readFromStorage", 0, position,
                  readFromStorage(actions, position))

\* actions.at(k - 1)->getSizeDifference()
GetSizeDifference(k) ==
    /\ k \in 1..Len(actions)
    /\ ActionCall("getSizeDifference", k, 0, getSizeDifference(actions[k]))

\* actions.at(k - 1)->save(file), on the file of the editor
ActionSave(k) ==
    /\ ops < limit
    /\ k \in 1..Len(actions)
    /\ disk' = Action_save(actions[k], Stream(disk, FALSE)).data
    /\ stream' = disk'
    /\ last' = [op |-> "Action::save", k |-> k, position |-> 0, result |-> NoByte,
                before |-> disk]
    /\ Remember("Action::save")
    /\ UNCHANGED <<mode_info, out, actions, index, blocks, before_do, after_do>>

\* actions.at(k - 1)->undo()
ActionUndo(k) ==
    /\ k \in 1..Len(actions)
    /\ ActionCall("Action::undo", k, 0,
                  IF actions[k].kind = "Bundled"
                  THEN BundledAction_undo(actions[k])
                  ELSE [status |-> Action_undo(actions[k]), calls |-> <<>>])

\* actions.at(k - 1)->redo()
ActionRedo(k) ==
    /\ k \in 1..Len(actions)
    /\ ActionCall("Action::redo", k, 0,
                  IF actions[k].kind = "Bundled"
                  THEN BundledAction_redo(actions[k])
                  ELSE [status |-> Action_redo(actions[k]), calls |-> <<>>])

ActionNext ==
    \/ \E k \in 1..2 : ActionUndo(k)
    \/ \E k \in 1..2 : ActionRedo(k)
    \/ \E k \in 1..2, read_position \in ReadPositions : ReversePosition(k, read_position)
    \/ \E position \in ReadPositions : ReadFromStorage(position)
    \/ \E k \in 1..2 : GetSizeDifference(k)
    \/ \E k \in 1..2 : ActionSave(k)

ActionSpec == ActionInit /\ [][ActionNext]_vars

(***************************************************************************)
(* The action log driven deeper: the editor opened on the whole file, the   *)
(* operations on the log with one position and one amount.                  *)
(***************************************************************************)
LogEditValues == {values \in EditValues : Len(values) = 1}

LogInit ==
    /\ mode_info = WholeFileMode
    /\ disk = FileBytes(MaxFileLen)
    /\ stream = disk
    /\ out = NoFile
    /\ actions = <<>>
    /\ index = 0
    /\ blocks = <<>>
    /\ last = [op |-> "open", position |-> 0, amount |-> 0, data |-> <<>>,
               status |-> "Ok", result |-> NoByte, pre_index |-> 0, pre_size |-> 0]
    /\ hist = <<>>
    /\ ops = 0
    /\ limit = MaxLogOps
    /\ saving = NotSaving
    /\ before_do = ViewOf(<<>>, <<>>, mode_info, disk)
    /\ after_do = [actions |-> <<>>, index |-> 0,
                   view |-> ViewOf(<<>>, <<>>, mode_info, disk), action |-> ClientAction(TRUE, TRUE, "Success")]

LogNext ==
    \/ \E values \in LogEditValues : Edit(0, values)
    \/ Insert(0, 1, insertion_value)
    \/ Deletion(0, 1)
    \/ \E action \in ClientActions : DoClient(action)
    \/ Undo
    \/ Redo
    \/ ClearUnapplied
    \/ Save

LogSpec == LogInit /\ [][LogNext]_vars

(***************************************************************************)
(* Helix::saveAsFile statement by statement: a whole-file save that can be  *)
(* cut short after any of them.                                             *)
(***************************************************************************)
\* up to std::filesystem::copy_file(file.filename, temp_file_path)
SaveCopy(op, initial_destination) ==
    /\ saving.pc = "none"
    /\ ops < limit
    /\ getSaveAsMode(mode_info) = "Whole"
    /\ saveAsFile_destination(initial_destination).status = "Success"
    /\ stream' = disk
    /\ saving' = [pc |-> "copied", op |-> op,
                  to |-> saveAsFile_destination(initial_destination).path,
                  temp |-> Stream(disk, FALSE), i |-> 1,
                  result |-> save_calculateResultingFileSize(actions, Len(disk))]
    /\ UNCHANGED <<mode_info, disk, out, actions, index, blocks, last, hist,
                   before_do, after_do, ops, limit>>

\* std::filesystem::resize_file(temp_file_path, file_size.largest()) and the opening
\* of temp_file
SaveResizeLargest ==
    /\ saving.pc = "copied"
    /\ saving' = [saving EXCEPT !.pc = "opened",
                                !.temp = Stream(ResizeBytes(saving.temp.data,
                                                            Max(Len(disk), saving.result)),
                                                FALSE)]
    /\ UNCHANGED <<mode_info, disk, stream, out, actions, index, blocks, last, hist,
                   before_do, after_do, ops, limit>>

\* the action saved to the destination itself
SaveWriteAction_in_place ==
    /\ saving.pc = "opened"
    /\ saving.i <= Len(actions)
    /\ saving' = [saving EXCEPT !.i = saving.i + 1]
    /\ IF saving.to = OpenedPath
       THEN disk' = Action_save(actions[saving.i], Stream(disk, FALSE)).data /\ out' = out
       ELSE out' = Action_save(actions[saving.i], Stream(disk, FALSE)).data /\ disk' = disk
    /\ UNCHANGED <<mode_info, stream, actions, index, blocks, last, hist,
                   before_do, after_do, ops, limit>>

\* the loop of ActionList::save run from the newest action to the oldest
SaveWriteAction_newest_first ==
    /\ saving.pc = "opened"
    /\ saving.i <= Len(actions)
    /\ saving' = [saving EXCEPT !.temp = Action_save(actions[Len(actions) + 1 - saving.i],
                                                     saving.temp),
                                !.i = saving.i + 1]
    /\ UNCHANGED <<mode_info, disk, stream, out, actions, index, blocks, last, hist,
                   before_do, after_do, ops, limit>>

\* one turn of the loop of ActionList::save(temp_file)
SaveWriteAction ==
    /\ saving.pc = "opened"
    /\ saving.i <= Len(actions)
    /\ saving' = [saving EXCEPT !.temp = Action_save(actions[saving.i], saving.temp),
                                !.i = saving.i + 1]
    /\ UNCHANGED <<mode_info, disk, stream, out, actions, index, blocks, last, hist,
                   before_do, after_do, ops, limit>>

\* the end of ActionList::save: actions.clear()
SaveClearActions ==
    /\ saving.pc = "opened"
    /\ saving.i > Len(actions)
    /\ actions' = <<>>
    /\ saving' = [saving EXCEPT !.pc = "written"]
    /\ UNCHANGED <<mode_info, disk, stream, out, index, blocks, last, hist,
                   before_do, after_do, ops, limit>>

\* temp_file.resize(file_size.result) and temp_file.close()
SaveResizeResult ==
    /\ saving.pc = "written"
    /\ saving' = [saving EXCEPT !.pc = "closed",
                                !.temp = File_resize(saving.temp, saving.result)]
    /\ UNCHANGED <<mode_info, disk, stream, out, actions, index, blocks, last, hist,
                   before_do, after_do, ops, limit>>

\* std::filesystem::rename(temp_file_path, destination) and return Success
SaveRename ==
    /\ saving.pc = "closed"
    /\ IF saving.to = OpenedPath
       THEN disk' = saving.temp.data /\ out' = out
       ELSE out' = saving.temp.data /\ disk' = disk
    /\ last' = Outcome(saving.op, 0, 0, saving.to, "Success", NoByte)
    /\ hist' = Append(hist, saving.op)
    /\ ops' = ops + 1
    /\ saving' = NotSaving
    /\ UNCHANGED <<mode_info, stream, actions, index, blocks, before_do, after_do, limit>>

StepNext ==
    \/ /\ saving.pc = "none"
       /\ \/ \E position \in Positions, values \in EditValues : Edit(position, values)
          \/ \E position \in Positions, amount \in Amounts, pattern \in PatternBytes :
                Insert(position, amount, pattern)
          \/ \E position \in Positions, amount \in Amounts : Deletion(position, amount)
    \/ SaveCopy("save", OpenedPath)
    \/ SaveCopy("saveAs", <<"out.bin">>)
    \/ SaveResizeLargest
    \/ SaveWriteAction
    \/ SaveClearActions
    \/ SaveResizeResult
    \/ SaveRename

StepSpec == Init /\ [][StepNext]_vars

(***************************************************************************)
(* FileHelper::File and File::Constraint on their own: a file of any length *)
(* up to MaxFileLen, the shifts called with any position, amount and chunk  *)
(* size, Constraint::convert with any natural position.                     *)
(***************************************************************************)
FilePositions == 0..MaxFileLen
Chunks == 1..MaxChunk
FillValues == {values \in EditValues : values # <<>>}
\* natural positions: the small ones and the largest of size_t
ConvertPositions == (0..MaxReadArg) \cup {Word - k : k \in 1..MaxReadArg}
\* the start and the end a Constraint is made with: none, or an offset
WindowEdges == {None} \cup (0..WinEnd)
ConstraintModes == FileModes \cup {PartialFileMode(None, WinEnd)}

FileOutcome(op, position, amount, data, chunk_size, result) ==
    [op |-> op, position |-> position, amount |-> amount, data |-> data,
     chunk_size |-> chunk_size, status |-> "Ok", result |-> result,
     pre_index |-> index, pre_size |-> Len(actions)]

FileInit ==
    /\ mode_info \in {m \in ConstraintModes : Constraint_accepts(m.start, m.end)}
    /\ disk \in {FileBytes(n) : n \in 0..MaxFileLen}
    /\ stream = disk
    /\ out = NoFile
    /\ actions = <<>>
    /\ index = 0
    /\ blocks = <<>>
    /\ last = [op |-> "open", position |-> 0, amount |-> 0, data |-> <<>>,
               status |-> "Ok", result |-> NoByte, pre_index |-> 0, pre_size |-> 0]
    /\ hist = <<>>
    /\ ops = 0
    /\ limit = MaxFileOps
    /\ saving = NotSaving
    /\ before_do = ViewOf(<<>>, <<>>, mode_info, disk)
    /\ after_do = [actions |-> <<>>, index |-> 0,
                   view |-> ViewOf(<<>>, <<>>, mode_info, disk), action |-> ClientAction(TRUE, TRUE, "Success")]

\* a call on the file: its bytes after it
FileCall(op, position, amount, data, chunk_size, bytes) ==
    /\ ops < limit
    /\ disk' = bytes
    /\ stream' = bytes
    /\ last' = FileOutcome(op, position, amount, data, chunk_size, NoByte)
    /\ Remember(op)
    /\ UNCHANGED <<mode_info, out, actions, index, blocks, before_do, after_do>>

\* File::insertion(absolute_position, data, chunk_size)
FileInsertionData(absolute_position, data, chunk_size) ==
    FileCall("File::insertion(data)", absolute_position, Len(data), data, chunk_size,
             File_insertionData(Stream(disk, FALSE), absolute_position, data, chunk_size).data)

\* File::insertion(absolute_position, amount, chunk_size)
FileInsertion(absolute_position, amount, chunk_size) ==
    FileCall("File::insertion", absolute_position, amount, Zeros(amount), chunk_size,
             File_insertion(Stream(disk, FALSE), absolute_position, amount, chunk_size).data)

\* File::deletion(absolute_position, amount, chunk_size)
FileDeletion(absolute_position, amount, chunk_size) ==
    FileCall("File::deletion", absolute_position, amount, <<>>, chunk_size,
             File_deletion(Stream(disk, FALSE), absolute_position, amount, chunk_size).data)

\* File::deletion(absolute_position, amount, chunk_size) and then
\* File::resize(size - amount), as the callers of deletion are to do
FileDeletionResize(absolute_position, amount, chunk_size) ==
    /\ amount <= Len(disk)
    /\ FileCall("File::deletion, File::resize", absolute_position, amount, <<>>, chunk_size,
                File_resize(File_deletion(Stream(disk, FALSE), absolute_position, amount,
                                          chunk_size),
                            Len(disk) - amount).data)

\* Constraint::convert(pos)
Convert(pos) ==
    /\ ops < limit
    /\ last' = FileOutcome("convert", pos, 0, <<>>, 0, convert(mode_info, pos))
    /\ Remember("convert")
    /\ UNCHANGED <<mode_info, disk, stream, out, actions, index, blocks, before_do,
                   after_do>>

\* Constraint::Constraint(t_filename, t_start, t_end, t_flags), on a path with a
\* file or without
Construct(file_exists, t_start, t_end) ==
    /\ ops < limit
    /\ last' = [op |-> "Constraint", start |-> t_start, end |-> t_end,
                file_exists |-> file_exists,
                status |-> Constraint_Constraint(file_exists, t_start, t_end)]
    /\ Remember("Constraint")
    /\ UNCHANGED <<mode_info, disk, stream, out, actions, index, blocks, before_do,
                   after_do>>

FileNext ==
    \/ \E file_exists \in BOOLEAN, t_start \in WindowEdges, t_end \in WindowEdges :
          Construct(file_exists, t_start, t_end)
    \/ \E position \in FilePositions, data \in FillValues, chunk_size \in Chunks :
          FileInsertionData(position, data, chunk_size)
    \/ \E position \in FilePositions, amount \in Amounts, chunk_size \in Chunks :
          FileInsertion(position, amount, chunk_size)
    \/ \E position \in FilePositions, amount \in Amounts, chunk_size \in Chunks :
          FileDeletion(position, amount, chunk_size)
    \/ \E position \in FilePositions, amount \in Amounts, chunk_size \in Chunks :
          FileDeletionResize(position, amount, chunk_size)
    \/ \E pos \in ConvertPositions : Convert(pos)

FileSpec == FileInit /\ [][FileNext]_vars

(***************************************************************************)
(* Properties.                                                             *)
(***************************************************************************)
DoNames == {"edit", "insert", "deletion", "doAction"}
LastOp == IF Len(hist) = 0 THEN "open" ELSE hist[Len(hist)]
\* the operations done since the last doAction are all reads
OnlyReadsSinceDo ==
    \E k \in 1..Len(hist) :
        /\ hist[k] \in DoNames
        /\ \A j \in (k + 1)..Len(hist) : hist[j] = "read"
\* the run so far is made of edit, insert and deletion calls alone
OnlyEdits == \A k \in 1..Len(hist) : hist[k] \in {"edit", "insert", "deletion"}
\* the last three operations were a doAction, undo() and redo()
DoUndoRedo ==
    /\ Len(hist) >= 3
    /\ hist[Len(hist) - 2] \in DoNames
    /\ hist[Len(hist) - 1] = "undo"
    /\ hist[Len(hist)] = "redo"

\* C1: overlay correctness.  In Whole mode, after any sequence of edit / insert /
\* deletion calls, read(N) equals the byte at offset N of the file saveAs would
\* write, for every position N of that file.
C1_OverlayCorrectness ==
    (mode_info.kind = "Whole" /\ OnlyEdits) =>
        LET saved == saveAsFile_temp(List, disk)
        IN  \A N \in ReadPositions : N < Len(saved) => View[N] = saved[N + 1]

\* C2: read after undo.  When an action was done and undo() then returned
\* Success, read returns at every position what it returned before the action was
\* done.
C2_ReadAfterUndo ==
    (/\ Len(hist) >= 2
     /\ hist[Len(hist) - 1] \in DoNames
     /\ hist[Len(hist)] = "undo"
     /\ last.status = "Success") => View = before_do

\* C3: read after write.  After edit(N, bytes), with nothing but reads since,
\* read(N + i) returns bytes[i] for every i < len(bytes), whatever was recorded
\* before the edit.
C3_ReadAfterWrite ==
    (OnlyReadsSinceDo /\ after_do.action.kind = "Edit") =>
        \A i \in 1..Len(after_do.action.data) :
            Helix_read(actions, blocks, mode_info, stream,
                       after_do.action.position + (i - 1)).result
                = after_do.action.data[i]

\* an edit of two bytes on top of an insertion or a deletion, read since
C3_Witness ==
    /\ OnlyReadsSinceDo
    /\ LastOp = "read"
    /\ Len(actions) = 2
    /\ actions[1].kind \in {"Insertion", "Deletion"}
    /\ actions[2].kind = "Edit"
    /\ Len(actions[2].data) = 2
    /\ actions[2].position = actions[1].position

\* C4: undo/redo symmetry.  For an action a that can be undone and redone,
\* do(a); undo(); redo() leaves the actions, the index and what read returns at
\* every position as they were right after do(a).
C4_UndoRedoSymmetry ==
    (DoUndoRedo /\ canUndo(after_do.action) /\ canRedo(after_do.action)) =>
        /\ actions = after_do.actions
        /\ index = after_do.index
        /\ View = after_do.view

\* on top of an earlier action an insertion was done, undone and redone with
\* Success
C4_Witness ==
    /\ DoUndoRedo
    /\ after_do.action.kind = "Insertion"
    /\ last.status = "Success"
    /\ last.pre_index = 1
    /\ index = 2
    /\ Len(actions) = 2

\* C5: log cursor bounds.  0 <= index <= actions.size() in every state.
C5_CursorBounds == 0 <= index /\ index <= Len(actions)

\* C6: do truncates the redo tail.  doAction(a) called with index < actions.size()
\* leaves actions = the old actions[0..index) followed by a, and index =
\* actions.size() = the old index + 1.
C6_DoTruncatesRedoTail ==
    [][(LastOp' \in DoNames /\ ops' = ops + 1 /\ index < Len(actions)) =>
          /\ actions' = Append(SubSeq(actions, 1, index), after_do'.action)
          /\ actions'[Len(actions')] = after_do'.action
          /\ index' = Len(actions')
          /\ index' = index + 1]_vars

\* an action was done on a log that had a redoable tail of two actions
C6_Witness ==
    /\ LastOp \in DoNames
    /\ last.pre_index + 2 = last.pre_size
    /\ actions[Len(actions)] = after_do.action

\* C7: the contract of undo().  index = 0: Nothing, index unchanged; the action at
\* index-1 cannot be undone: Unnable, index unchanged; otherwise index goes down by
\* one and the status is that of the undo of the action now at index.
C7_UndoContract ==
    [][(LastOp' = "undo" /\ ops' = ops + 1) =>
          IF index = 0
          THEN last'.status = "Nothing" /\ index' = index
          ELSE IF index <= Len(actions) /\ ~canUndo(actions[index])
               THEN last'.status = "Unnable" /\ index' = index
               ELSE /\ index' = index - 1
                    /\ index' < Len(actions)
                    /\ last'.status = Action_undo(actions[index' + 1])]_vars

\* C8: the contract of redo().  index = actions.size(): Nothing, index unchanged;
\* the action at index cannot be redone: Unnable, index unchanged; otherwise index
\* goes up by one and the status is that of the redo of the action at index-1.
C8_RedoContract ==
    [][(LastOp' = "redo" /\ ops' = ops + 1) =>
          IF index = Len(actions)
          THEN last'.status = "Nothing" /\ index' = index
          ELSE IF index < Len(actions) /\ ~canRedo(actions[index + 1])
               THEN last'.status = "Unnable" /\ index' = index
               ELSE /\ index' = index + 1
                    /\ index' <= Len(actions)
                    /\ last'.status = Action_redo(actions[index'])]_vars

\* C9: mode gating.  insert and deletion throw and leave the log as it is in
\* Partial and Spotty (John) mode; in Whole and OpenPartial mode they succeed and
\* append exactly one action.  edit is accepted in every mode.
C9_ModeGating ==
    [][(last'.op \in {"insert", "deletion", "edit"} /\ ops' = ops + 1) =>
          IF last'.op # "edit" /\ mode_info.kind \in {"Partial", "John"}
          THEN /\ last'.status = "ModeError"
               /\ actions' = actions
               /\ index' = index
          ELSE /\ last'.status = "Ok"
               /\ actions' = Append(clearUnappliedActions(List), after_do'.action)]_vars

\* C10: window enforcement on reads.  In an editor opened with a window
\* [start, end), read(N) with start + N >= end throws PositionRangeError.
C10_WindowEnforcement ==
    (/\ last.op = "read"
     /\ mode_info.end # None
     /\ mode_info.start + last.position >= mode_info.end) =>
        last.result = PositionRangeError

\* C11: windowed save.  In an editor opened with a window [start, end), after
\* edit(N, bytes) with start + N + len(bytes) <= end and a save() that returns
\* Success, the file holds bytes[i] at absolute offset start + N + i and every byte
\* outside [start, end) is what it was before the save.
C11_WindowedSave ==
    [][(/\ LastOp = "edit"
        /\ last.status = "Ok"
        /\ last'.op = "save"
        /\ ops' = ops + 1
        /\ last'.status = "Success"
        /\ mode_info.start # None
        /\ mode_info.end # None
        /\ mode_info.start + last.position + Len(last.data) <= mode_info.end) =>
          /\ \A i \in 1..Len(last.data) :
                /\ mode_info.start + last.position + i <= Len(disk')
                /\ disk'[mode_info.start + last.position + i] = last.data[i]
          /\ Len(disk') = Len(disk)
          /\ \A q \in 1..Len(disk) :
                (q - 1 < mode_info.start \/ q - 1 >= mode_info.end) => disk'[q] = disk[q]]_vars

RECURSIVE ClaimedSizeDelta(_)
\* the size delta the specification gives an action: +n for an insertion of n
\* bytes, with a pattern or without, -n for a deletion of n bytes
ClaimedSizeDelta(a) ==
    CASE a.kind = "Insertion" -> a.amount
      [] a.kind = "Deletion" -> 0 - a.amount
      [] a.kind = "Bundled" ->
            IF a.actions = <<>>
            THEN 0
            ELSE ClaimedSizeDelta(Head(a.actions))
                    + ClaimedSizeDelta(BundledAction(Tail(a.actions)))
      [] OTHER -> 0
ClaimedSizeSum == ClaimedSizeDelta(BundledAction(actions))

\* C12: saved size.  A whole-file save of a log of actions on a file of
\* previous_size bytes writes a file of previous_size + the sum of the size deltas
\* of the actions.
C12_SavedSize ==
    [][(/\ last'.op \in {"save", "saveAs"}
        /\ ops' = ops + 1
        /\ last'.status = "Success"
        /\ getSaveAsMode(mode_info) = "Whole") =>
          Len(IF last'.op = "save" THEN disk' ELSE out') = Len(disk) + ClaimedSizeSum]_vars

\* C15: edits are deferred.  While no save and no saveAs was called, the opened
\* file has the bytes and the size it was opened with and no other file was
\* written, whatever edit, insert, deletion, undo and redo were called.
C15_EditsDeferred ==
    (\A k \in 1..Len(hist) : hist[k] \notin {"save", "saveAs"}) =>
        /\ disk = FileBytes(MaxFileLen)
        /\ stream = disk
        /\ out = NoFile

\* a deletion and an insertion were done and one of them undone: reads show them,
\* the file does not
C15_Witness ==
    /\ LastOp = "undo"
    /\ last.status = "Success"
    /\ Len(actions) = 2
    /\ {actions[1].kind, actions[2].kind} = {"Insertion", "Deletion"}
    /\ View # ViewOf(<<>>, <<>>, mode_info, disk)

\* C16: save clears the log.  After save() or saveAs() returned Success in a
\* whole-file mode the log has no actions and its cursor is 0.
C16_SaveClearsLog ==
    (/\ last.op \in {"save", "saveAs"}
     /\ last.status = "Success"
     /\ getSaveAsMode(mode_info) = "Whole") =>
        /\ actions = <<>>
        /\ index = 0

\* the bytes left when n bytes are deleted at offset p
Deleted(bytes, p, n) == SubSeq(bytes, 1, p) \o SubSeq(bytes, p + n + 1, Len(bytes))

\* C13: saveAs to another path.  saveAs(dest) with dest another path than the
\* opened one, returning Success, leaves the opened file's bytes and size as they
\* were; after deletion(p, n) alone the file at dest holds the edited content, the
\* opened file's bytes without the n bytes at p.
C13_SaveAsOtherPath ==
    [][(/\ last'.op = "saveAs"
        /\ ops' = ops + 1
        /\ last'.status = "Success"
        /\ saveAsFile_destination(last'.data).path # OpenedPath) =>
          /\ disk' = disk
          /\ (hist = <<"deletion">> /\ mode_info.kind = "Whole") =>
                out' = Deleted(disk, last.position, last.amount)]_vars

\* C17: save rejects bad targets.  saveAs(dest) returns InvalidFilename when the
\* normalized dest is empty or its filename is "." or "..", and InvalidDestination
\* when the parent directory of dest does not exist; in both cases no file is
\* written and the log is as it was.
C17_SaveRejectsBadTargets ==
    [][(last'.op = "saveAs" /\ ops' = ops + 1) =>
          LET destination == lexically_normal(last'.data)
              parent == IF parent_path(destination) = <<>>
                        THEN parent_path(OpenedPath)
                        ELSE parent_path(destination)
              bad_filename == destination = <<>> \/ path_filename(destination) \in {".", ".."}
              bad_parent == ~bad_filename /\ path_filename(destination) # ""
                            /\ parent \notin Directories
          IN  /\ bad_filename => last'.status = "InvalidFilename"
              /\ bad_parent => last'.status = "InvalidDestination"
              /\ (bad_filename \/ bad_parent) =>
                    /\ disk' = disk
                    /\ out' = out
                    /\ actions' = actions
                    /\ index' = index]_vars

\* C14: atomic commit.  While a whole-file save is under way every step before
\* the rename leaves the opened file and the destination, bytes and size, as they
\* were; the rename alone changes the destination, to the temporary file.
C14_AtomicCommit ==
    [][(saving.pc # "none" \/ saving'.pc # "none") =>
          IF saving.pc = "closed"
          THEN IF saving.to = OpenedPath
               THEN disk' = saving.temp.data /\ out' = out
               ELSE out' = saving.temp.data /\ disk' = disk
          ELSE disk' = disk /\ out' = out]_vars

\* every action is written and the file cut to its size, the rename is still to
\* come: the temporary file differs from the destination in bytes and in size
C14_Witness ==
    /\ saving.pc = "closed"
    /\ saving.to = OpenedPath
    /\ saving.i > 2
    /\ Len(saving.temp.data) # Len(disk)
    /\ \E q \in 1..Len(disk) : q <= Len(saving.temp.data) /\ saving.temp.data[q] # disk[q]

\* C18: shift-insert preserves bytes.  On a file of S bytes, for 0 <= p <= S,
\* n >= 1 and chunk >= 1, File::insertion(p, data of n bytes, chunk) leaves a file
\* of S + n bytes: [0, p) as before, [p, p + n) the data, [p + n, S + n) the old
\* [p, S).
C18_ShiftInsert ==
    [][(/\ last'.op = "File::insertion(data)"
        /\ ops' = ops + 1
        /\ last'.position <= Len(disk)
        /\ last'.amount >= 1) =>
          disk' = SubSeq(disk, 1, last'.position) \o last'.data
                     \o SubSeq(disk, last'.position + 1, Len(disk))]_vars

\* C19: shift-delete preserves bytes.  On a file of S bytes, for p + n <= S and
\* chunk >= 1, File::deletion(p, n, chunk) leaves the size S, and followed by
\* resize(S - n) it leaves a file of S - n bytes: [0, p) as before and [p, S - n)
\* the old [p + n, S).
C19_ShiftDelete ==
    [][(/\ ops' = ops + 1
        /\ last'.op \in {"File::deletion", "File::deletion, File::resize"}
        /\ last'.position + last'.amount <= Len(disk)) =>
          IF last'.op = "File::deletion"
          THEN /\ Len(disk') = Len(disk)
               /\ SubSeq(disk', 1, Len(disk) - last'.amount)
                     = Deleted(disk, last'.position, last'.amount)
          ELSE /\ Len(disk') = Len(disk) - last'.amount
               /\ disk' = Deleted(disk, last'.position, last'.amount)]_vars

\* bytes were deleted inside the file and the bytes after them moved down in
\* several chunks, the last one short
C19_Witness ==
    /\ last.op = "File::deletion, File::resize"
    /\ last.position >= 1
    /\ last.amount = 2
    /\ last.chunk_size = 2
    /\ Len(disk) - last.position = 3
    /\ disk[last.position] = 10 + last.position - 1
    /\ disk[last.position + 1] = 10 + last.position + last.amount

\* C20: position translation.  With start S and end E, convert(N) is S + N exactly
\* when S + N < E and throws PositionRangeError otherwise; with no end it is
\* start.value_or(0) + N.
C20_PositionTranslation ==
    (last.op = "convert") =>
        LET S == IF mode_info.start = None THEN 0 ELSE mode_info.start
        IN  IF mode_info.end # None /\ S + last.position >= mode_info.end
            THEN last.result = PositionRangeError
            ELSE last.result = S + last.position

\* C21: zero-span window.  Constructing a constrained view with start and end both
\* present and equal throws a range error, and does so before the file is looked
\* at: whether or not there is a file at the path.
C21_ZeroSpanRejected ==
    (/\ last.op = "Constraint"
     /\ last.start # None
     /\ last.end # None
     /\ last.start = last.end) => last.status = "RangeError"

\* a view of no bytes asked for on a path with no file
C21_Witness ==
    /\ last.op = "Constraint"
    /\ last.start = WinStart
    /\ last.end = WinStart
    /\ ~last.file_exists
    /\ last.status = "RangeError"

\* C22: window ordering.  Constructing a constrained view with start and end both
\* present succeeds only if start < end.
C22_WindowOrdering ==
    (/\ last.op = "Constraint"
     /\ last.start # None
     /\ last.end # None
     /\ last.status = "Ok") => last.start < last.end

\* the actions before the index: the ones undo() has not taken back
Applied == SubSeq(actions, 1, Min(index, Len(actions)))
\* the step is a call of either overload of insert that the mode permits
InsertStep ==
    /\ hist' = Append(hist, last'.op)
    /\ last'.op \in {"insert", "insert(vector)"}

E6_Run ==
    /\ mode_info.kind = "Whole"
    /\ disk = FileBytes(6)
    /\ hist = <<"insert", "deletion", "read">>
    /\ actions = <<InsertAction(1, 1, MaxByte + 1), DeletionAction(3, 1)>>
    /\ index = 2
    /\ last.position = 0
    /\ last.amount = 6

\* C24 as amended: scenario E6 makes read(0, 6) return "AXBDEF": the deletion at 3
\* takes out the 'C' that the insertion moved to 3.
C24_ScenarioE6 ==
    E6_Run => last.result = <<10, MaxByte + 1, 11, 13, 14, 15>>

C24_Witness ==
    /\ E6_Run
    /\ Len(last.result) = 6
    /\ last.result[2] = MaxByte + 1

\* C24 as stated: scenario E6 makes read(0, 6) return "AXBCEF".
C24_ScenarioE6_AsStated ==
    E6_Run => last.result = <<10, MaxByte + 1, 11, 12, 14, 15>>

RECURSIVE Materialized(_, _, _)
\* the file f after the first k actions of the list were saved to it one after the
\* other, the first first, a Bundled action by its children in their stored order
Materialized(list, k, f) ==
    IF k = 0
    THEN f
    ELSE LET earlier == Materialized(list, k - 1, f)
         IN  IF list[k].kind = "Bundled"
             THEN Materialized(list[k].actions, Len(list[k].actions), earlier)
             ELSE Action_save(list[k], earlier)

\* the temporary file as saveAsFile opens it: the copy of the source at its largest
\* size
TempAtOpen == Stream(ResizeBytes(disk, Max(Len(disk), saving.result)), FALSE)

\* C26: materialization order.  While save writes the actions, the temporary file
\* holds the actions written so far saved one at a time in the order they were
\* submitted, the first first, each Bundled action by its children in their stored
\* order: every write lands on the writes of all the actions before it.
C26_MaterializationOrder ==
    saving.pc = "opened" =>
        /\ saving.i \in 1..(Len(actions) + 1)
        /\ saving.temp = Materialized(actions, saving.i - 1, TempAtOpen)

\* a Bundled insertion and then an edit over its first byte are both written: the
\* byte of the edit is the one in the file
C26_Witness ==
    /\ saving.pc = "opened"
    /\ saving.i = 3
    /\ Len(actions) = 2
    /\ actions[1].kind = "Bundled"
    /\ actions[2].kind = "Edit"
    /\ actions[2].position = actions[1].actions[2].position
    /\ Len(actions[2].data) > 0
    /\ actions[2].data[1] # actions[1].actions[2].data[1]
    /\ saving.temp.data[actions[2].position + 1] = actions[2].data[1]

\* the action the last call was made on
LastAction == actions[last.k]

\* C27: reverse_position of the three primitive actions, for a read position r.
\* Edit{p, data}: the byte data[r - p] if p <= r < p + len(data), else r.
\* Insertion{p, n}: the byte 0x00 if p <= r < p + n, r - n if r >= p + n, else r.
\* Deletion{p, n}: r + n if r >= p, else r.
C27_ReversePositionTable ==
    (last.op = "reversePosition" /\ LastAction.kind \in {"Edit", "Insertion", "Deletion"}) =>
        LET a == LastAction
            p == a.position
            n == a.amount
            r == last.position
        IN  CASE a.kind = "Edit" ->
                   IF p <= r /\ r < p + Len(a.data)
                   THEN last.result = [is_byte |-> TRUE, value |-> a.data[r - p + 1]]
                   ELSE last.result = [is_byte |-> FALSE, value |-> r]
              [] a.kind = "Insertion" ->
                   IF p <= r /\ r < p + n
                   THEN last.result = [is_byte |-> TRUE, value |-> 0]
                   ELSE IF r >= p + n
                        THEN last.result = [is_byte |-> FALSE, value |-> r - n]
                        ELSE last.result = [is_byte |-> FALSE, value |-> r]
              [] a.kind = "Deletion" ->
                   IF r >= p
                   THEN last.result = [is_byte |-> FALSE, value |-> r + n]
                   ELSE last.result = [is_byte |-> FALSE, value |-> r]

\* an Insertion of two bytes asked for a position past its gap
C27_Witness ==
    /\ last.op = "reversePosition"
    /\ LastAction.kind = "Insertion"
    /\ LastAction.amount = 2
    /\ last.position >= LastAction.position + 2
    /\ last.result = [is_byte |-> FALSE, value |-> last.position - 2]

RECURSIVE Resolve(_, _)
\* the position N taken through the list from its newest action to its oldest,
\* up to the first action that gives a byte
Resolve(list, N) ==
    IF Len(list) = 0
    THEN [is_byte |-> FALSE, value |-> N]
    ELSE LET result == reversePosition(list[Len(list)], N)
         IN  IF result.is_byte
             THEN result
             ELSE Resolve(SubSeq(list, 1, Len(list) - 1), result.value)

\* C28: reverse resolution.  readFromStorage(N) and the reversePosition of a Bundled
\* action take N through the actions from the newest to the oldest and stop at the
\* first byte; with no actions the result is the position N.
C28_ReverseResolution ==
    /\ last.op = "readFromStorage" =>
          /\ last.result = Resolve(actions, last.position)
          /\ Len(actions) = 0 => last.result = [is_byte |-> FALSE, value |-> last.position]
    /\ (last.op = "reversePosition" /\ LastAction.kind = "Bundled") =>
          last.result = Resolve(LastAction.actions, last.position)

\* a Bundled insertion of a byte asked for the position of its gap: the byte of the
\* edit, its newer child, and not the 0x00 of the insertion
C28_Witness ==
    /\ last.op = "reversePosition"
    /\ LastAction.kind = "Bundled"
    /\ LastAction.actions[1].kind = "Insertion"
    /\ last.position = LastAction.actions[1].position
    /\ last.result = [is_byte |-> TRUE, value |-> MaxByte + 1]

\* C29: size_delta.  getSizeDifference is 0 for an Edit, +n for an Insertion, -n for
\* a Deletion and the sum of the children's for a Bundled action.
C29_SizeDelta ==
    last.op = "getSizeDifference" => last.result = ClaimedSizeDelta(LastAction)

\* C30: materialization targets.  save of an Edit writes its data at its position p,
\* of an Insertion shift-inserts at p, of a Deletion shift-deletes at p.
C30_MaterializationTargets ==
    (last.op = "Action::save" /\ LastAction.kind \in {"Edit", "Insertion", "Deletion"}) =>
        LET a == LastAction
            f == Stream(last.before, FALSE)
        IN  disk = CASE a.kind = "Edit" -> File_write(f, a.position, a.data).data
                     [] a.kind = "Insertion" ->
                          File_insertion(f, a.position, a.amount, InsertionSaveChunk).data
                     [] a.kind = "Deletion" ->
                          File_deletion(f, a.position, a.amount, DeletionSaveChunk).data

\* C31: Bundled undo/redo ordering.  undo() of a Bundled action calls its
\* children's undo() from the last child to the first, redo() calls their redo()
\* from the first child to the last; each returns Unnable and calls no child when
\* some child cannot be undone (redone).
C31_BundledOrdering ==
    LET a == LastAction
        downward == [j \in 1..Len(a.actions) |-> Len(a.actions) + 1 - j]
        upward == [j \in 1..Len(a.actions) |-> j]
    IN  /\ (last.op = "Action::undo" /\ a.kind = "Bundled") =>
              IF \E j \in 1..Len(a.actions) : ~canUndo(a.actions[j])
              THEN last.result = [status |-> "Unnable", calls |-> <<>>]
              ELSE last.result.calls = downward
        /\ (last.op = "Action::redo" /\ a.kind = "Bundled") =>
              IF \E j \in 1..Len(a.actions) : ~canRedo(a.actions[j])
              THEN last.result = [status |-> "Unnable", calls |-> <<>>]
              ELSE last.result.calls = upward

\* C32: chunk-size independence.  For a file, a position and an amount, the bytes
\* File::insertion and File::deletion leave are the same for every chunk size >= 1.
C32_ChunkIndependence ==
    [][(/\ ops' = ops + 1
        /\ last'.op \in {"File::insertion", "File::deletion"}
        /\ last'.position + last'.amount <= Len(disk)) =>
          \A chunk_size \in Chunks :
              disk' = IF last'.op = "File::insertion"
                      THEN File_insertion(Stream(disk, FALSE), last'.position,
                                          last'.amount, chunk_size).data
                      ELSE File_deletion(Stream(disk, FALSE), last'.position,
                                         last'.amount, chunk_size).data]_vars

\* the cached block that starts at the position, if there is one
CachedAt(rounded) == {i \in 1..Len(blocks) : blocks[i].start_position = rounded}

\* C33: block cache read.  readSingleRaw(N) takes the block that starts at N rounded
\* down to a multiple of block_size, from the cache or loaded on a miss, and
\* returns its byte at offset N - rounded, or none when the offset is at or past
\* the block's length or no byte is there to load; the value for N is the same on
\* a hit as on a miss.
C33_BlockCacheRead ==
    \A N \in ReadPositions :
        LET rounded == N - (N % BlockSize)
            offset == N - rounded
            hit == readSingleRaw(blocks, mode_info, stream, N).result
            miss == readSingleRaw(<<>>, mode_info, stream, N).result
        IN  /\ CachedAt(rounded) # {} =>
                  \E i \in CachedAt(rounded) :
                      hit = IF offset >= Len(blocks[i].data)
                            THEN NoByte
                            ELSE blocks[i].data[offset + 1]
            /\ hit = miss

\* C34: the block cache is bounded in count.  After any sequence of reads the
\* number of cached blocks is at most max_block_count.
C34_BlockCacheBounded == Len(blocks) <= max_block_count

\* C35: block cache well-formedness.  In every reachable state every cached block
\* starts at a multiple of block_size and holds between 1 and block_size bytes, and
\* no two cached blocks start at the same position.
C35_BlockCacheWellFormed ==
    /\ \A i \in 1..Len(blocks) :
          /\ blocks[i].start_position % BlockSize = 0
          /\ Len(blocks[i].data) >= 1
          /\ Len(blocks[i].data) <= BlockSize
    /\ \A i \in 1..Len(blocks), j \in 1..Len(blocks) :
          blocks[i].start_position = blocks[j].start_position => i = j

\* two blocks are cached by two reads, the second the short last block of the file
C35_Witness ==
    /\ Len(blocks) = 2
    /\ Len(blocks[2].data) < BlockSize
    /\ blocks[2].start_position > blocks[1].start_position
    /\ LastOp = "read"
    /\ last.result = blocks[2].data[1]

C37_OnlyAppliedSaved ==
    [][(/\ hist' = Append(hist, "save")
        /\ last'.status = "Success"
        /\ index < Len(actions)) =>
          LET applied == [actions |-> SubSeq(actions, 1, index), index |-> index]
          IN  disk' = IF getSaveAsMode(mode_info) = "Whole"
                      THEN saveAsFile_temp(applied, disk)
                      ELSE save_file_simple(applied, stream)]_vars

\* C38: save does not change the visible content.  For every position N, read(N)
\* right after a successful save() returns what read(N) returned right before it,
\* whether or not the block of N was cached before the save.
C38_SaveKeepsContent ==
    [][(hist' = Append(hist, "save") /\ last'.status = "Success") =>
          ViewOf(actions', blocks', mode_info', stream') = View]_vars

\* C39: undo and redo move only the cursor.  Whatever status they return, undo()
\* and redo() leave the actions list as it was; a step that changes the list is a
\* doAction (edit, insert, deletion included), clearUnappliedActions or a save.
C39_UndoRedoKeepList ==
    [][/\ (hist' = Append(hist, "undo") \/ hist' = Append(hist, "redo")) =>
              actions' = actions
       /\ actions' # actions =>
              /\ Len(hist') = Len(hist) + 1
              /\ hist'[Len(hist')] \in DoNames \cup {"clearUnappliedActions", "save"}
    ]_vars

\* after two actions and two undo() the first was done again by redo(): both are
\* still in the list and the index is 1
C39_Witness ==
    /\ Len(hist) = 5
    /\ hist[3] = "undo"
    /\ hist[4] = "undo"
    /\ hist[5] = "redo"
    /\ last.status = "Success"
    /\ Len(actions) = 2
    /\ actions[1].kind = "Edit"
    /\ actions[2].kind = "Deletion"
    /\ index = 1

\* C40: shift-delete never wraps.  On a file of S bytes, for chunk >= 1,
\* File::deletion(pos, amount, chunk) makes ceil((S - pos - amount) / chunk) chunk
\* moves when pos + amount < S and none when pos + amount >= S: at most
\* ceil(S / chunk) moves.
C40_DeletionNeverWraps ==
    [][(ops' = ops + 1 /\ last'.op = "File::deletion") =>
        LET S == Len(disk)
            pos == last'.position
            amount == last'.amount
            chunk == last'.chunk_size
            moves == deletion_shift_iterations(S, pos, amount, chunk)
        IN  /\ pos + amount < S => moves = (S - pos - amount + chunk - 1) \div chunk
            /\ pos + amount >= S => moves = 0
            /\ moves <= (S + chunk - 1) \div chunk
    ]_vars

====
